---------------------------- MODULE Spec2Model ----------------------------
(***************************************************************************)
(* Model of edx-repo-health: the dependency readers and aggregator of      *)
(* repo_health/check_dependencies.py and the flatten/standardize layer of  *)
(* repo_health_dashboard/utils/utils.py.                                   *)
(*                                                                         *)
(* Text is modelled as a sequence of one-character strings, so that the    *)
(* string tests of the code (startswith, endswith, `in`, re.sub, replace)  *)
(* are computed on characters.  A dict is a function, a list a sequence.   *)
(***************************************************************************)
EXTENDS Integers, Sequences, FiniteSets, TLC

VARIABLES
    repo,                 \* the repository on disk: requirements/, package.json, package-lock.json
    default_output,       \* module global default_output of check_dependencies.py
    py_reader,            \* attributes of the last PythonDependencyReader instance
    py_result,            \* outcome of the last PythonDependencyReader.read
    js_result,            \* outcome of the last JavascriptDependencyReader.read
    previous_output,      \* what the call of get_dependencies before the last one returned
    dependencies_output,  \* outcome of the last get_dependencies
    op,                   \* the operation that ran last
    nested,               \* the mapping handed to squash_dict
    delimiter,            \* the delimiter handed to squash_dict
    squashed,             \* what squash_dict returned
    metadata_by_repo,     \* the caller's mapping from repository name to result mapping
    passed,               \* metadata_by_repo as it was when the last call was made
    returned,             \* what the last call returned
    fed_from,             \* the function whose returned set the caller has passed in again
    repo_order,           \* the repository names in the insertion order of metadata_by_repo
    configuration,        \* the configuration handed to write_squashed_metadata_to_csv
    csvfile,              \* outcome of write_squashed_metadata_to_csv and the rows in the file
    heap,                 \* the per-repository dict objects: heap[id] is the content of object id
    arg_ref,              \* the object each entry of the caller's metadata_by_repo refers to
    ret_ref,              \* the object each entry of the returned mapping refers to
    old_ref,              \* arg_ref as it was when the last call was made
    written               \* the entry of the returned mapping the caller wrote last

depsVars == <<repo, default_output, py_reader, py_result, js_result, dependencies_output,
             previous_output>>
dashVars == <<nested, delimiter, squashed, metadata_by_repo, passed, returned, fed_from>>
csvVars == <<repo_order, configuration, csvfile>>
heapVars == <<heap, arg_ref, ret_ref, old_ref, written>>
vars == <<depsVars, dashVars, csvVars, heapVars, op>>

(***************************************************************************)
(* Bounds of the explored inputs.                                          *)
(***************************************************************************)
MaxFiles == 2     \* files under requirements/
MaxLines == 3     \* lines of all requirement files together
MaxDepth == 3     \* levels of mappings in a nested result
MaxLeaves == 2    \* leaves of all nested results together
MaxRepos == 2     \* repositories in metadata_by_repo
MaxPkgs == 2      \* distinct package names in package.json / package-lock.json
MaxOrder == 2     \* keys in configuration.check_order

(***************************************************************************)
(* Text helpers (Python str methods and the two regular expressions).      *)
(***************************************************************************)
Range(s) == {s[i] : i \in 1..Len(s)}

NoDuplicates(s) == \A i, j \in 1..Len(s) : s[i] = s[j] => i = j

\* str.startswith(p)
StartsWith(s, p) == Len(p) <= Len(s) /\ SubSeq(s, 1, Len(p)) = p

\* str.endswith(p)
EndsWith(s, p) == Len(p) <= Len(s) /\ SubSeq(s, Len(s) - Len(p) + 1, Len(s)) = p

\* p occurs in s at position i
OccursAt(s, p, i) == i + Len(p) - 1 <= Len(s) /\ SubSeq(s, i, i + Len(p) - 1) = p

\* `p in s` for strings
Contains(s, p) == \E i \in 1..(Len(s) + 1) : OccursAt(s, p, i)

\* a match of the pattern ' +#' starts at position i: one or more spaces, then '#'
InlineCommentAt(s, i) ==
    /\ i \in 1..Len(s)
    /\ s[i] = " "
    /\ \E j \in i..Len(s) :
          /\ \A k \in i..j : s[k] = " "
          /\ j + 1 <= Len(s)
          /\ s[j + 1] = "#"

\* re.sub(r' +#.*', "", line): the leftmost match runs to the end of the line
StripInlineComment(s) ==
    IF \E i \in 1..Len(s) : InlineCommentAt(s, i)
    THEN LET i == CHOOSE i \in 1..Len(s) :
                     /\ InlineCommentAt(s, i)
                     /\ \A k \in 1..(i - 1) : ~InlineCommentAt(s, k)
         IN  SubSeq(s, 1, i - 1)
    ELSE s

\* str.replace(p, ""): every non-overlapping occurrence, left to right
RECURSIVE Remove(_, _)
Remove(s, p) ==
    IF s = <<>> THEN <<>>
    ELSE IF OccursAt(s, p, 1) THEN Remove(SubSeq(s, Len(p) + 1, Len(s)), p)
    ELSE <<s[1]>> \o Remove(Tail(s), p)

\* list(set(...)): the elements once each, in the order the set yields them
RECURSIVE SetToList(_)
SetToList(S) ==
    IF S = {} THEN <<>>
    ELSE LET x == CHOOSE x \in S : TRUE IN <<x>> \o SetToList(S \ {x})

\* json.dumps of a list and of a dict: the text is determined by, and
\* determines, the payload; the two kinds of text never coincide and
\* neither is the empty string <<>>
JsonDumpsList(l) == <<"json_array", l>>
JsonDumpsDict(d) == <<"json_object", d>>

\* number of entries of a serialized list / object
JsonEntries(t) == IF t[1] = "json_array" THEN Len(t[2]) ELSE Cardinality(DOMAIN t[2])

(***************************************************************************)
(* Literals of check_dependencies.py.                                      *)
(***************************************************************************)
HASH       == <<"#">>
DASH_E     == <<"-", "e", " ">>
GIT_PLUS   == <<"g", "i", "t", "+">>
EQEQ       == <<"=", "=">>
DOT_TXT    == <<".", "t", "x", "t">>
constraints_txt == <<"c","o","n","s","t","r","a","i","n","t","s">> \o DOT_TXT
pins_txt        == <<"p","i","n","s">> \o DOT_TXT
production_txt  == <<"p","r","o","d","u","c","t","i","o","n">> \o DOT_TXT
base_txt        == <<"b","a","s","e">> \o DOT_TXT
development_txt == <<"d","e","v","e","l","o","p","m","e","n","t">> \o DOT_TXT
dev_txt         == <<"d","e","v">> \o DOT_TXT

constraints_files == {constraints_txt, pins_txt}
priority_list == <<production_txt, base_txt, development_txt, dev_txt>>

(***************************************************************************)
(* File accessors of the repo_health package.                              *)
(* requirements is a sequence of [path, lines] in the order rglob lists    *)
(* the files; a file is the sequence of its lines.                         *)
(***************************************************************************)
get_file_lines(files, path) ==
    IF \E i \in 1..Len(files) : files[i].path = path
    THEN files[CHOOSE i \in 1..Len(files) : files[i].path = path].lines
    ELSE <<>>

(***************************************************************************)
(* PythonDependencyReader                                                  *)
(***************************************************************************)
\* the comprehension shared by _read_dependencies and cleanup_lines
KeepLine(line) == line # <<>> /\ ~StartsWith(line, HASH)
StripLine(line) == Remove(StripInlineComment(line), DASH_E)

RECURSIVE MapStrip(_)
MapStrip(lines) ==
    IF lines = <<>> THEN <<>> ELSE <<StripLine(lines[1])>> \o MapStrip(Tail(lines))

stripped_lines(lines) == MapStrip(SelectSeq(lines, KeepLine))

IsGit(line) == StartsWith(line, GIT_PLUS)

\* cleanup_lines that leaves the trailing inline comments in place
cleanup_lines_KeepsComments(lines) ==
    LET kept == SelectSeq(lines, KeepLine)
        github_packages == SelectSeq(kept, IsGit)
        IsPypi(line) == line \notin Range(github_packages) /\ Contains(line, EQEQ)
    IN  [github |-> github_packages, pypi |-> SelectSeq(kept, IsPypi)]

cleanup_lines(lines) ==
    LET stripped == stripped_lines(lines)
        github_packages == SelectSeq(stripped, IsGit)
        IsPypi(line) == line \notin Range(github_packages) /\ Contains(line, EQEQ)
    IN  [github |-> github_packages, pypi |-> SelectSeq(stripped, IsPypi)]

\* a loop that takes every line with "==" as a pypi package
RECURSIVE ReadAllFiles_NoGithubTest(_, _, _)
ReadAllFiles_NoGithubTest(files, paths, acc) ==
    IF paths = <<>> THEN acc
    ELSE LET stripped == stripped_lines(get_file_lines(files, paths[1]))
             github_packages == acc.github_packages \o SelectSeq(stripped, IsGit)
             IsPypi(line) == Contains(line, EQEQ)
             pypi_packages == acc.pypi_packages \o SelectSeq(stripped, IsPypi)
         IN  ReadAllFiles_NoGithubTest(files, Tail(paths),
                          [github_packages |-> github_packages, pypi_packages |-> pypi_packages])

\* the loop over all requirement files: acc is [github_packages, pypi_packages]
RECURSIVE ReadAllFiles(_, _, _)
ReadAllFiles(files, paths, acc) ==
    IF paths = <<>> THEN acc
    ELSE LET stripped == stripped_lines(get_file_lines(files, paths[1]))
             github_packages == acc.github_packages \o SelectSeq(stripped, IsGit)
             IsPypi(line) == line \notin Range(github_packages) /\ Contains(line, EQEQ)
             pypi_packages == acc.pypi_packages \o SelectSeq(stripped, IsPypi)
         IN  ReadAllFiles(files, Tail(paths),
                          [github_packages |-> github_packages, pypi_packages |-> pypi_packages])

\* the loop over priority_list: the files of the first name that has any;
\* when no name has any, the list left by the last iteration (empty)
RECURSIVE SelectProduction(_, _)
SelectProduction(paths, names) ==
    LET EndsWithName(file) == EndsWith(file, names[1])
        requirement_files == SelectSeq(paths, EndsWithName)
    IN  IF requirement_files # <<>> \/ Len(names) = 1 THEN requirement_files
        ELSE SelectProduction(paths, Tail(names))

\* the loop over the selected production files
RECURSIVE ReadProduction(_, _)
ReadProduction(files, paths) ==
    IF paths = <<>> THEN <<>>
    ELSE cleanup_lines(get_file_lines(files, paths[1])).pypi \o ReadProduction(files, Tail(paths))

RECURSIVE Paths(_)
Paths(files) == IF files = <<>> THEN <<>> ELSE <<files[1].path>> \o Paths(Tail(files))

IsConstraintsFile(file) == \E c \in constraints_files : EndsWith(file, c)
IsRequirementFile(file) == ~IsConstraintsFile(file)

\* attributes the reader instance holds after _read_dependencies, and the
\* raw github_packages list the result serializes
PythonReaderState(files) ==
    LET paths == Paths(files)
        requirement_files == SelectSeq(paths, IsRequirementFile)
        all == ReadAllFiles(files, requirement_files,
                            [github_packages |-> <<>>, pypi_packages |-> <<>>])
        production_packages == ReadProduction(files, SelectProduction(paths, priority_list))
    IN  [github_packages     |-> all.github_packages,
         github_dependencies |-> SetToList(Range(all.github_packages)),
         pypi_dependencies   |-> SetToList(Range(all.pypi_packages)),
         production_packages |-> SetToList(Range(production_packages))]

Python_read_dependencies(files) ==
    LET self == PythonReaderState(files)
    IN  [github   |-> [count |-> Cardinality(Range(self.github_dependencies)),
                       list  |-> JsonDumpsList(self.github_packages)],
         pypi_all |-> [count |-> Cardinality(Range(self.pypi_dependencies)),
                       list  |-> JsonDumpsList(self.pypi_dependencies)],
         pypi     |-> [count |-> Cardinality(Range(self.production_packages)),
                       list  |-> JsonDumpsList(self.production_packages)],
         count    |-> Cardinality(Range(self.pypi_dependencies))
                        + Cardinality(Range(self.github_dependencies))]

is_python_repo(r) == r.requirements.exists

\* PythonDependencyReader.read: {} when requirements/ does not exist
PythonRead(r) ==
    IF ~is_python_repo(r) THEN [kind |-> "empty"]
    ELSE [kind |-> "result", val |-> Python_read_dependencies(r.requirements.files)]

(***************************************************************************)
(* JSON files.  The text of a file is "empty" (no characters), "malformed" *)
(* (characters that are not JSON) or "json" with the value it denotes.     *)
(***************************************************************************)
EMPTY_TEXT == [kind |-> "empty"]

\* text of a file, "" when the file does not exist
get_file_content(file) == IF file.exists THEN file.text ELSE EMPTY_TEXT

\* truth value of a str: false for ""
Truthy(text) == text.kind # "empty"

\* json.loads: the value, or JSONDecodeError
json_loads(text) ==
    IF text.kind = "json" THEN [ok |-> TRUE, data |-> text.data] ELSE [ok |-> FALSE]

\* dict.get(key, default)
dict_get(d, key, default) == IF key \in DOMAIN d THEN d[key] ELSE default

\* dict.update(other)
dict_update(d, other) == other @@ d

EMPTY_DICT == [k \in {} |-> 0]

(***************************************************************************)
(* JavascriptDependencyReader                                              *)
(***************************************************************************)
is_js_repo(r) == r.package_json.exists

\* the loop over the locked packages: js_dependencies_all, or KeyError when
\* some entry has no "version"
\* a loop that stores the entries under their version instead of their name
LockedVersions_ByVersion(locked) ==
    IF \E dependency \in DOMAIN locked : "version" \notin DOMAIN locked[dependency]
    THEN [ok |-> FALSE]
    ELSE [ok |-> TRUE,
          all |-> [version \in {locked[d]["version"] : d \in DOMAIN locked} |->
                      CHOOSE d \in DOMAIN locked : locked[d]["version"] = version]]

LockedVersions(locked) ==
    IF \E dependency \in DOMAIN locked : "version" \notin DOMAIN locked[dependency]
    THEN [ok |-> FALSE]
    ELSE [ok |-> TRUE,
          all |-> [dependency \in DOMAIN locked |-> locked[dependency]["version"]]]

\* a total that counts a package of both objects once
JavascriptTotalCount_Union(js_dependencies, js_dev_dependencies) ==
    Cardinality(DOMAIN js_dependencies \cup DOMAIN js_dev_dependencies)

\* the reader's "count": js_dependencies_count + js_dev_dependencies_count
JavascriptTotalCount(js_dependencies, js_dev_dependencies) ==
    Cardinality(DOMAIN js_dependencies) + Cardinality(DOMAIN js_dev_dependencies)

Javascript_read_dependencies(r) ==
    LET package_json_data == json_loads(r.package_json.text)
        package_lock_content == get_file_content(r.package_lock)
        package_lock_data == json_loads(package_lock_content)
    IN  IF ~package_json_data.ok THEN [kind |-> "raised", exc |-> "JSONDecodeError"]
        ELSE
        LET js_dependencies == dict_get(package_json_data.data, "dependencies", EMPTY_DICT)
            js_dev_dependencies == dict_get(package_json_data.data, "devDependencies", EMPTY_DICT)
            js_dependencies_count == Cardinality(DOMAIN js_dependencies)
            js_dev_dependencies_count == Cardinality(DOMAIN js_dev_dependencies)
            locked == IF Truthy(package_lock_content) /\ package_lock_data.ok
                      THEN LockedVersions(dict_get(package_lock_data.data, "dependencies", EMPTY_DICT))
                      ELSE [ok |-> TRUE, all |-> EMPTY_DICT]
        IN  IF Truthy(package_lock_content) /\ ~package_lock_data.ok
            THEN [kind |-> "raised", exc |-> "JSONDecodeError"]
            ELSE IF ~locked.ok THEN [kind |-> "raised", exc |-> "KeyError"]
            ELSE [kind |-> "result",
                  val |-> ("count" :> JavascriptTotalCount(js_dependencies, js_dev_dependencies))
                       @@ ("js" :> [count |-> js_dependencies_count,
                                    list  |-> JsonDumpsDict(js_dependencies)])
                       @@ ("js.dev" :> [count |-> js_dev_dependencies_count,
                                        list  |-> JsonDumpsDict(js_dev_dependencies)])
                       @@ ("js.all" :> [count |-> Cardinality(DOMAIN locked.all),
                                        list  |-> JsonDumpsDict(locked.all)])]

\* JavascriptDependencyReader.read: {} when package.json does not exist
JavascriptRead(r) ==
    IF ~is_js_repo(r) THEN [kind |-> "empty"] ELSE Javascript_read_dependencies(r)

(***************************************************************************)
(* get_dependencies                                                        *)
(***************************************************************************)
DefaultOutput ==
       ("count"    :> 0)
    @@ ("github"   :> [count |-> 0, list |-> <<>>])
    @@ ("pypi_all" :> [count |-> 0, list |-> <<>>])
    @@ ("pypi"     :> [count |-> 0, list |-> <<>>])
    @@ ("js"       :> [count |-> 0, list |-> <<>>])
    @@ ("js.dev"   :> [count |-> 0, list |-> <<>>])
    @@ ("js.all"   :> [count |-> 0, list |-> <<>>])

\* DependencyReader.__subclasses__(): the subclasses in definition order
ReaderSubclasses == <<"JavascriptDependencyReader", "PythonDependencyReader">>

ReaderRead(reader, r) ==
    IF reader = "JavascriptDependencyReader" THEN JavascriptRead(r) ELSE PythonRead(r)

\* a loop that merges each result without writing the running total back
RECURSIVE RunReaders_NoTotal(_, _, _, _)
RunReaders_NoTotal(r, readers, dependencies_count, output) ==
    IF readers = <<>> THEN [kind |-> "result", val |-> output]
    ELSE LET result == ReaderRead(readers[1], r)
         IN  IF result.kind = "raised" THEN result
             ELSE IF result.kind = "empty"
             THEN RunReaders_NoTotal(r, Tail(readers), dependencies_count, output)
             ELSE RunReaders_NoTotal(r, Tail(readers), dependencies_count,
                                     dict_update(output, result.val))

\* the loop of get_dependencies over the readers
RECURSIVE RunReaders(_, _, _, _)
RunReaders(r, readers, dependencies_count, output) ==
    IF readers = <<>> THEN [kind |-> "result", val |-> output]
    ELSE LET result == ReaderRead(readers[1], r)
         IN  IF result.kind = "raised" THEN result
             ELSE IF result.kind = "empty"
             THEN RunReaders(r, Tail(readers), dependencies_count, output)
             ELSE LET count == dependencies_count + dict_get(result.val, "count", 0)
                      merged == dict_update(output, result.val)
                  IN  RunReaders(r, Tail(readers), count,
                                 dict_update(merged, "count" :> count))

\* an aggregator that starts from an empty mapping
get_dependencies_NoDefaults(r, defaults) == RunReaders(r, ReaderSubclasses, 0, EMPTY_DICT)

\* copy.deepcopy(default_output) is a fresh value: default_output is not written
get_dependencies(r, defaults) == RunReaders(r, ReaderSubclasses, 0, defaults)

\* a call that updates the module's default_output itself
DefaultOutputAfter_Shared(defaults, output) ==
    IF output.kind = "result" THEN output.val ELSE defaults

\* the module's default_output after a call: the loop updates the deep copy
DefaultOutputAfter(defaults, output) == defaults

(***************************************************************************)
(* repo_health_dashboard/utils/utils.py                                    *)
(* A value is [kind, val]: a scalar "leaf", a "list", None ("none") or a   *)
(* "dict", whose val is a function from keys (texts) to values.            *)
(***************************************************************************)
DOT == <<".">>
None == [kind |-> "none", val |-> 0]
DictValue(d) == [kind |-> "dict", val |-> d]

\* isinstance(value, dict)
IsDict(value) == value.kind = "dict"

\* squash_dict that also puts the delimiter in front of every key
RECURSIVE squash_dict_LeadingDelimiter(_, _)
squash_dict_LeadingDelimiter(input, d) ==
    LET Sub(key) == squash_dict_LeadingDelimiter(input[key].val, DOT)
        OutKeys(key) == IF IsDict(input[key])
                        THEN {d \o key \o d \o key2 : key2 \in DOMAIN Sub(key)}
                        ELSE {d \o key}
        outkeys == UNION {OutKeys(key) : key \in DOMAIN input}
    IN  [k \in outkeys |->
            LET key == CHOOSE key \in DOMAIN input : k \in OutKeys(key)
            IN  IF IsDict(input[key])
                THEN Sub(key)[CHOOSE key2 \in DOMAIN Sub(key) : k = d \o key \o d \o key2]
                ELSE input[key]]

\* squash_dict(input, delimiter): the recursive call does not pass the
\* delimiter on, so below the first level the keys are joined with ".".
\* No two paths of the explored inputs join to the same key, so the order
\* in which the items are written does not show in the result.
RECURSIVE squash_dict(_, _)
squash_dict(input, d) ==
    LET Sub(key) == squash_dict(input[key].val, DOT)
        OutKeys(key) == IF IsDict(input[key])
                        THEN {key \o d \o key2 : key2 \in DOMAIN Sub(key)}
                        ELSE {key}
        outkeys == UNION {OutKeys(key) : key \in DOMAIN input}
    IN  [k \in outkeys |->
            LET key == CHOOSE key \in DOMAIN input : k \in OutKeys(key)
            IN  IF IsDict(input[key])
                THEN Sub(key)[CHOOSE key2 \in DOMAIN Sub(key) : k = key \o d \o key2]
                ELSE input[key]]

get_superset_of_keys(dicts) == UNION {DOMAIN dicts[name] : name \in DOMAIN dicts}

\* standardize that lets the defaults overwrite the repository's own values
standardize_metadata_by_repo_DefaultsWin(m) ==
    LET superset_keys == get_superset_of_keys(m)
        defaults == [k \in superset_keys |-> None]
    IN  [dict_name \in DOMAIN m |-> dict_update(m[dict_name], defaults)]

standardize_metadata_by_repo(m) ==
    LET superset_keys == get_superset_of_keys(m)
        defaults == [k \in superset_keys |-> None]
    IN  [dict_name \in DOMAIN m |-> dict_update(defaults, m[dict_name])]

\* the mapping after the loop of squash_and_standardize_metadata_by_repo
SquashAll(m) == [dict_name \in DOMAIN m |-> squash_dict(m[dict_name], DOT)]

squash_and_standardize_metadata_by_repo(m) == standardize_metadata_by_repo(SquashAll(m))

(***************************************************************************)
(* The same functions on objects.  metadata_by_repo maps each name to a    *)
(* dict object; heap is the sequence of the objects' contents and a        *)
(* reference is a position in it.  A new dict is a new position.           *)
(***************************************************************************)
AllRepoNames == <<"repo1", "repo2", "repo3">>

\* the names of refs in the order of AllRepoNames
RECURSIVE NamesInOrder(_, _)
NamesInOrder(refs, names) ==
    IF names = <<>> THEN <<>>
    ELSE (IF names[1] \in DOMAIN refs THEN <<names[1]>> ELSE <<>>)
             \o NamesInOrder(refs, Tail(names))

IndexOf(names, name) == CHOOSE i \in 1..Len(names) : names[i] = name

\* the mapping the references denote
Deref(objects, refs) == [name \in DOMAIN refs |-> objects[refs[name]]]

\* new objects with the contents of m, and the references to them
NewObjects(objects, m) ==
    LET names == NamesInOrder(m, AllRepoNames)
    IN  [heap |-> objects \o [i \in 1..Len(names) |-> m[names[i]]],
         refs |-> [name \in DOMAIN m |-> Len(objects) + IndexOf(names, name)]]

\* standardize that fills the keys into the objects it is given
standardize_objects_InPlace(objects, refs) ==
    LET output == standardize_metadata_by_repo(Deref(objects, refs))
    IN  [heap |-> [id \in DOMAIN objects |->
                      IF \E name \in DOMAIN refs : refs[name] = id
                      THEN output[CHOOSE name \in DOMAIN refs : refs[name] = id]
                      ELSE objects[id]],
         arg  |-> refs,
         ret  |-> refs]

\* standardize_metadata_by_repo: each superset_output is defaults.copy(), a
\* new dict, updated from the item; output is a new mapping
standardize_objects(objects, refs) ==
    LET new == NewObjects(objects, standardize_metadata_by_repo(Deref(objects, refs)))
    IN  [heap |-> new.heap, arg |-> refs, ret |-> new.refs]

\* squash_and_standardize that leaves the caller's mapping as it was
squash_and_standardize_objects_NoWriteBack(objects, refs) ==
    LET new == NewObjects(objects, SquashAll(Deref(objects, refs)))
    IN  [standardize_objects(new.heap, new.refs) EXCEPT !.arg = refs]

\* squash_and_standardize_metadata_by_repo: squash_dict returns a new dict,
\* which the loop stores in the caller's mapping under the same name
squash_and_standardize_objects(objects, refs) ==
    LET new == NewObjects(objects, SquashAll(Deref(objects, refs)))
    IN  standardize_objects(new.heap, new.refs)

\* the characters of the keys in code-point order, as sorted() compares them
CharOrder == <<"-", ".", "/", "A", "B", "_", "a", "b", "c", "x">>
Ord(c) == CHOOSE i \in 1..Len(CharOrder) : CharOrder[i] = c

\* s < t for two str
RECURSIVE LexLess(_, _)
LexLess(s, t) ==
    IF t = <<>> THEN FALSE
    ELSE IF s = <<>> THEN TRUE
    ELSE IF s[1] = t[1] THEN LexLess(Tail(s), Tail(t))
    ELSE Ord(s[1]) < Ord(t[1])

\* list(sorted(keys))
RECURSIVE Sorted(_)
Sorted(keys) ==
    IF keys = {} THEN <<>>
    ELSE LET least == CHOOSE k \in keys : \A j \in keys \ {k} : LexLess(k, j)
         IN  <<least>> \o Sorted(keys \ {least})

REPO_NAME == <<"r", "e", "p", "o", "_", "n", "a", "m", "e">>

\* what csv.writer writes for a value: nothing for None, str(value) otherwise
CsvField(value) == IF value = None THEN <<>> ELSE <<"str", value>>

\* check_order followed by all the sorted superset keys
SortedKeys_NoDiscard(m, config) ==
    config.check_order \o Sorted(get_superset_of_keys(m))

\* check_order followed by the sorted superset keys that are not in it
SortedKeys(m, config) ==
    config.check_order \o Sorted(get_superset_of_keys(m) \ Range(config.check_order))

\* the header row: repo_name, then the alias of each key that has one
CsvHeader(sorted_keys, config) ==
    <<REPO_NAME>> \o [i \in 1..Len(sorted_keys) |->
                        IF sorted_keys[i] \in DOMAIN config.key_aliases
                        THEN config.key_aliases[sorted_keys[i]]
                        ELSE sorted_keys[i]]

\* the loop over metadata_by_repo.items(): the rows written, up to the first
\* repository that lacks one of the keys (item[k] raises KeyError)
RECURSIVE CsvRows(_, _, _)
CsvRows(m, order, sorted_keys) ==
    IF order = <<>> THEN [raised |-> FALSE, rows |-> <<>>]
    ELSE IF \E i \in 1..Len(sorted_keys) : sorted_keys[i] \notin DOMAIN m[order[1]]
    THEN [raised |-> TRUE, rows |-> <<>>]
    ELSE LET row == <<(<<order[1]>>)>>
                        \o [i \in 1..Len(sorted_keys) |-> CsvField(m[order[1]][sorted_keys[i]])]
             rest == CsvRows(m, Tail(order), sorted_keys)
         IN  [raised |-> rest.raised, rows |-> <<row>> \o rest.rows]

\* write_squashed_metadata_to_csv(metadata_by_repo, filename, configuration):
\* order is the insertion order of metadata_by_repo
write_squashed_metadata_to_csv(m, order, config) ==
    LET sorted_keys == SortedKeys(m, config)
        body == CsvRows(m, order, sorted_keys)
    IN  [kind        |-> IF body.raised THEN "raised" ELSE "returned",
         sorted_keys |-> sorted_keys,
         rows        |-> <<CsvHeader(sorted_keys, config)>> \o body.rows]

(***************************************************************************)
(* Inputs: the repositories the operations are run on.                     *)
(***************************************************************************)
L_pin         == <<"a">> \o EQEQ \o <<"1">>                 \* a==1
L_git         == GIT_PLUS \o <<"u">> \o EQEQ \o <<"1">>     \* git+u==1
L_editable    == DASH_E \o L_git                            \* -e git+u==1
L_pin_comment == <<"b">> \o EQEQ \o <<"2", " ", "#", "c">>   \* b==2 #c

PyLines == {L_pin, L_git, L_editable, L_pin_comment}
PyNames == {production_txt, base_txt, pins_txt}

\* file names for the choice of the production files: two of the priority
\* names, one of them also in a subdirectory, and a name that ends in one
L_other     == <<"b">> \o EQEQ \o <<"2">>                    \* b==2
SelectLines == {L_pin, L_other}
SelectNames == {production_txt, base_txt, <<"s", "/">> \o base_txt, <<"x">> \o base_txt, dev_txt}

\* comment lines at column 0, after spaces and after a tab, with text that
\* looks like a requirement; blank lines
TAB == "\t"
L_comment        == HASH \o L_pin                            \* #a==1
L_comment_spaces == <<" ", " ">> \o HASH \o L_other           \* two spaces, #b==2
L_comment_git    == <<" ">> \o HASH \o L_git                  \* space, #git+u==1
L_comment_tab    == <<TAB>> \o HASH \o L_other                \* tab, #b==2
L_blank          == <<" ", TAB>>                              \* space, tab
CommentLines == {L_pin, L_comment, L_comment_spaces, L_comment_git, L_comment_tab, L_blank}
CommentNames == {base_txt, dev_txt}

\* lines of every class: pinned, git with and without "==", editable, neither
L_plain     == <<"a">>                                       \* a
L_git_plain == GIT_PLUS \o <<"u">>                            \* git+u
ClassifyLines == {L_pin, L_git, L_git_plain, L_editable, L_plain}
ClassifyNames == {base_txt, dev_txt}

AllPkgNames == <<"core-js", "jest", "babel", "react">>
PkgNames == {AllPkgNames[i] : i \in 1..MaxPkgs}

RECURSIVE Sum(_)
Sum(lens) == IF lens = <<>> THEN 0 ELSE lens[1] + Sum(Tail(lens))

\* the listing of the files at paths, the i-th holding the next lens[i] of the lines
FileList(paths, lens, lines) ==
    [i \in 1..Len(paths) |->
        [path  |-> paths[i],
         lines |-> SubSeq(lines, Sum(SubSeq(lens, 1, i - 1)) + 1, Sum(SubSeq(lens, 1, i)))]]

NoRequirements == [exists |-> FALSE, files |-> <<>>]

AbsentFile == [exists |-> FALSE, text |-> EMPTY_TEXT]
TextFiles(datas) ==
    {AbsentFile}
        \cup {[exists |-> TRUE, text |-> t] : t \in {EMPTY_TEXT, [kind |-> "malformed"]}}
        \cup {[exists |-> TRUE, text |-> [kind |-> "json", data |-> d]] : d \in datas}

\* objects with some of the given keys, each bound to a value of vals
Objects(keys, vals) == UNION {[ks -> vals] : ks \in SUBSET keys}

VersionRanges == Objects(PkgNames, {"^1.0"})
ManifestData == Objects({"dependencies", "devDependencies"}, VersionRanges)
LockEntries == {[version |-> "1.0.0"], [resolved |-> "url"]}
LockData == Objects({"dependencies"}, Objects(PkgNames, LockEntries))

\* nested results: the keys, the values at the leaves and the paths of keys
\* at most depth levels down
DashKeys == {<<"a">>, <<"b">>}
ScalarValue == [kind |-> "leaf", val |-> 1]
LeafValues == {ScalarValue, [kind |-> "list", val |-> <<1, 2, 3>>]}
EmptyDictValue == DictValue(EMPTY_DICT)

KeyPaths(depth) == UNION {[1..n -> DashKeys] : n \in 1..depth}

IsPrefix(p, q) == Len(p) <= Len(q) /\ SubSeq(q, 1, Len(p)) = p

\* the mapping whose leaves are the values of at, one at each path of P
RECURSIVE Build(_, _)
Build(P, at) ==
    [key \in {p[1] : p \in P} |->
        IF <<key>> \in P THEN at[<<key>>]
        ELSE DictValue(Build({Tail(p) : p \in {q \in P : q[1] = key}},
                             [t \in {Tail(p) : p \in {q \in P : q[1] = key}} |-> at[<<key>> \o t]]))]

\* the mapping with the leaves vals[i] at the paths ps[i]
BuildAt(ps, vals) ==
    Build(Range(ps), [p \in Range(ps) |-> vals[CHOOSE i \in 1..Len(ps) : ps[i] = p]])

RepoNames == {AllRepoNames[i] : i \in 1..MaxRepos}

\* the paths into the mappings of the repositories: a repository name alone
\* (a repository with an empty mapping) or followed by a path of keys
RepoPaths(depth) ==
    {<<name>> : name \in RepoNames}
        \cup {<<name>> \o path : name \in RepoNames, path \in KeyPaths(depth)}

NoResult == [kind |-> "none"]

\* repo is a repository whose requirements/ is absent or lists at most
\* MaxFiles files, with distinct paths among names and at most MaxLines lines
\* of pool together, and whose package.json and package-lock.json are among
\* manifests and locks
RepoIn(names, pool, manifests, locks) ==
    \E package_json \in manifests, package_lock \in locks :
        \/ repo = [requirements |-> NoRequirements,
                   package_json |-> package_json, package_lock |-> package_lock]
        \/ \E n \in 0..MaxFiles, t \in 0..MaxLines :
              \E paths \in [1..n -> names], lens \in [1..n -> 0..t], lines \in [1..t -> pool] :
                  /\ \A i, j \in 1..n : paths[i] = paths[j] => i = j
                  /\ Sum(lens) = t
                  /\ repo = [requirements |-> [exists |-> TRUE,
                                                files  |-> FileList(paths, lens, lines)],
                             package_json |-> package_json, package_lock |-> package_lock]

\* nothing of check_dependencies.py has run
IdleDeps ==
    /\ default_output = DefaultOutput
    /\ py_reader = NoResult
    /\ py_result = NoResult
    /\ js_result = NoResult
    /\ dependencies_output = NoResult
    /\ previous_output = NoResult

\* nothing of the dashboard utils has run
IdleDash ==
    /\ nested = EMPTY_DICT
    /\ delimiter = DOT
    /\ squashed = NoResult
    /\ metadata_by_repo = EMPTY_DICT
    /\ passed = NoResult
    /\ returned = NoResult
    /\ fed_from = "none"

NoConfiguration == [check_order |-> <<>>, key_aliases |-> EMPTY_DICT]

\* each entry of m is an object of its own; nothing has been returned
HeapHolds(m) ==
    /\ heap = NewObjects(<<>>, m).heap
    /\ arg_ref = NewObjects(<<>>, m).refs
    /\ ret_ref = EMPTY_DICT
    /\ old_ref = EMPTY_DICT
    /\ written = NoResult

\* nothing has been written
IdleCsv ==
    /\ configuration = NoConfiguration
    /\ csvfile = NoResult

InitCommon ==
    IdleDeps /\ IdleDash /\ HeapHolds(EMPTY_DICT) /\ IdleCsv /\ repo_order = <<>> /\ op = "init"

NoRepository ==
    [requirements |-> NoRequirements, package_json |-> AbsentFile, package_lock |-> AbsentFile]

\* one nested mapping and a delimiter
InitSquash ==
    /\ repo = NoRepository
    /\ IdleDeps
    /\ \E n \in 0..MaxLeaves :
          \E ps \in [1..n -> KeyPaths(MaxDepth)],
             vals \in [1..n -> LeafValues \cup {EmptyDictValue}] :
              /\ \A i, j \in 1..n : IsPrefix(ps[i], ps[j]) => i = j
              /\ nested = BuildAt(ps, vals)
    /\ delimiter \in {DOT, <<"/">>}
    /\ squashed = NoResult
    /\ metadata_by_repo = EMPTY_DICT
    /\ passed = NoResult
    /\ returned = NoResult
    /\ fed_from = "none"
    /\ HeapHolds(EMPTY_DICT)
    /\ IdleCsv
    /\ repo_order = <<>>
    /\ op = "init"

\* the nested results of some repositories
InitDash ==
    /\ repo = NoRepository
    /\ IdleDeps
    /\ nested = EMPTY_DICT
    /\ delimiter = DOT
    /\ squashed = NoResult
    /\ \E n \in 0..MaxLeaves :
          \E ps \in [1..n -> RepoPaths(MaxDepth - 1)], vals \in [1..n -> {ScalarValue}] :
              /\ \A i, j \in 1..n : IsPrefix(ps[i], ps[j]) => i = j
              /\ metadata_by_repo =
                    LET at == [i \in 1..n |-> IF Len(ps[i]) = 1 THEN EmptyDictValue ELSE vals[i]]
                        all == BuildAt(ps, at)
                    IN  [name \in DOMAIN all |-> all[name].val]
    /\ passed = NoResult
    /\ returned = NoResult
    /\ fed_from = "none"
    /\ HeapHolds(metadata_by_repo)
    /\ IdleCsv
    /\ repo_order = NamesInOrder(metadata_by_repo, AllRepoNames)
    /\ op = "init"

\* flat results of some repositories, in any insertion order
CsvKeys == {<<"a">>, <<"b">>, <<"a", ".", "b">>}
FlatPaths ==
    {<<name>> : name \in RepoNames} \cup {<<name, key>> : name \in RepoNames, key \in CsvKeys}

InitCsv ==
    /\ repo = NoRepository
    /\ IdleDeps
    /\ nested = EMPTY_DICT
    /\ delimiter = DOT
    /\ squashed = NoResult
    /\ \E n \in 0..MaxLeaves :
          \E ps \in [1..n -> FlatPaths] :
              /\ \A i, j \in 1..n : IsPrefix(ps[i], ps[j]) => i = j
              /\ metadata_by_repo =
                    LET at == [i \in 1..n |-> IF Len(ps[i]) = 1 THEN EmptyDictValue ELSE ScalarValue]
                        all == BuildAt(ps, at)
                    IN  [name \in DOMAIN all |-> all[name].val]
    /\ \E order \in [1..Cardinality(DOMAIN metadata_by_repo) -> DOMAIN metadata_by_repo] :
          /\ \A i, j \in DOMAIN order : order[i] = order[j] => i = j
          /\ repo_order = order
    /\ passed = NoResult
    /\ returned = NoResult
    /\ fed_from = "none"
    /\ HeapHolds(metadata_by_repo)
    /\ IdleCsv
    /\ op = "init"

\* the configurations: at most MaxOrder keys in check_order, an alias for some keys
ALIAS == <<"A">>
Configurations ==
    [check_order : UNION {[1..n -> CsvKeys] : n \in 0..MaxOrder},
     key_aliases : Objects({<<"a">>}, {ALIAS})]

\* Python repositories
InitPy ==
    /\ RepoIn(PyNames, PyLines, {AbsentFile}, {AbsentFile})
    /\ InitCommon

\* Python repositories whose requirement files differ in name
InitSelect ==
    /\ RepoIn(SelectNames, SelectLines, {AbsentFile}, {AbsentFile})
    /\ InitCommon

\* Python repositories with comment and blank lines in their requirement files
InitComments ==
    /\ RepoIn(CommentNames, CommentLines, {AbsentFile}, {AbsentFile})
    /\ InitCommon

\* Python repositories with lines of every class
InitClassify ==
    /\ RepoIn(ClassifyNames, ClassifyLines, {AbsentFile}, {AbsentFile})
    /\ InitCommon

\* JavaScript repositories
InitJs ==
    /\ repo \in [requirements : {NoRequirements},
                 package_json : TextFiles(ManifestData), package_lock : TextFiles(LockData)]
    /\ InitCommon

\* repositories of both ecosystems
InitDeps ==
    /\ RepoIn({base_txt}, {L_pin, L_git}, TextFiles(ManifestData), TextFiles(LockData))
    /\ InitCommon

(***************************************************************************)
(* Operations.                                                             *)
(***************************************************************************)
\* PythonDependencyReader(repo_path).read()
PythonReaderRead ==
    /\ op = "init"
    /\ op' = "PythonDependencyReader.read"
    /\ py_result' = PythonRead(repo)
    /\ py_reader' = IF is_python_repo(repo)
                    THEN [kind |-> "read", self |-> PythonReaderState(repo.requirements.files)]
                    ELSE NoResult
    /\ UNCHANGED <<repo, default_output, js_result, dependencies_output, previous_output,
                 dashVars, csvVars, heapVars>>

\* JavascriptDependencyReader(repo_path).read()
JavascriptReaderRead ==
    /\ op = "init"
    /\ op' = "JavascriptDependencyReader.read"
    /\ js_result' = JavascriptRead(repo)
    /\ UNCHANGED <<repo, default_output, py_reader, py_result, dependencies_output, previous_output,
                 dashVars, csvVars, heapVars>>

\* get_dependencies(repo_path)
GetDependencies ==
    /\ op = "init"
    /\ op' = "get_dependencies"
    /\ dependencies_output' = get_dependencies(repo, default_output)
    /\ default_output' = DefaultOutputAfter(default_output, dependencies_output')
    /\ UNCHANGED <<repo, py_reader, py_result, js_result, previous_output, dashVars, csvVars, heapVars>>

\* a second get_dependencies(repo_path) on the same repository
GetDependenciesAgain ==
    /\ op = "get_dependencies"
    /\ op' = "get_dependencies_again"
    /\ previous_output' = dependencies_output
    /\ dependencies_output' = get_dependencies(repo, default_output)
    /\ default_output' = DefaultOutputAfter(default_output, dependencies_output')
    /\ UNCHANGED <<repo, py_reader, py_result, js_result, dashVars, csvVars, heapVars>>

\* squash_dict(nested, delimiter)
SquashDict ==
    /\ op = "init"
    /\ op' = "squash_dict"
    /\ squashed' = squash_dict(nested, delimiter)
    /\ UNCHANGED <<depsVars, csvVars, heapVars, nested, delimiter, metadata_by_repo, passed,
                 returned, fed_from>>

\* standardize_metadata_by_repo(metadata_by_repo)
Standardize ==
    /\ op \in {"init", "fed_back"}
    /\ op' = "standardize_metadata_by_repo"
    /\ passed' = metadata_by_repo
    /\ old_ref' = arg_ref
    /\ LET call == standardize_objects(heap, arg_ref)
       IN  /\ heap' = call.heap
           /\ arg_ref' = call.arg
           /\ ret_ref' = call.ret
           /\ metadata_by_repo' = Deref(call.heap, call.arg)
           /\ returned' = Deref(call.heap, call.ret)
    /\ UNCHANGED <<depsVars, csvVars, nested, delimiter, squashed, fed_from, written>>

\* squash_and_standardize_metadata_by_repo(metadata_by_repo): the loop
\* writes the squashed mappings into the caller's mapping
SquashAndStandardize ==
    /\ op \in {"init", "fed_back"}
    /\ op' = "squash_and_standardize_metadata_by_repo"
    /\ passed' = metadata_by_repo
    /\ old_ref' = arg_ref
    /\ LET call == squash_and_standardize_objects(heap, arg_ref)
       IN  /\ heap' = call.heap
           /\ arg_ref' = call.arg
           /\ ret_ref' = call.ret
           /\ metadata_by_repo' = Deref(call.heap, call.arg)
           /\ returned' = Deref(call.heap, call.ret)
    /\ UNCHANGED <<depsVars, csvVars, nested, delimiter, squashed, fed_from, written>>

\* the caller passes the set a call returned in again
FeedBack ==
    /\ op \in {"standardize_metadata_by_repo", "squash_and_standardize_metadata_by_repo"}
    /\ fed_from = "none"
    /\ op' = "fed_back"
    /\ fed_from' = op
    /\ metadata_by_repo' = returned
    /\ arg_ref' = ret_ref
    /\ UNCHANGED <<depsVars, csvVars, nested, delimiter, squashed, passed, returned,
                 heap, ret_ref, old_ref, written>>

\* the caller stores a value under a key of one repository's returned mapping
WRITTEN == [kind |-> "leaf", val |-> 2]
CallerWrites ==
    /\ op \in {"standardize_metadata_by_repo", "squash_and_standardize_metadata_by_repo"}
    /\ op' = "caller_write"
    /\ \E name \in DOMAIN ret_ref :
          \E key \in DOMAIN returned[name] :
              /\ heap' = [heap EXCEPT ![ret_ref[name]] = dict_update(@, key :> WRITTEN)]
              /\ written' = [kind |-> "written", name |-> name, key |-> key]
    /\ metadata_by_repo' = Deref(heap', arg_ref)
    /\ returned' = Deref(heap', ret_ref)
    /\ UNCHANGED <<depsVars, csvVars, nested, delimiter, squashed, passed, fed_from,
                 arg_ref, ret_ref, old_ref>>

\* write_squashed_metadata_to_csv(returned, filename, configuration) on a
\* standardized set
WriteCsv ==
    /\ op = "standardize_metadata_by_repo"
    /\ op' = "write_squashed_metadata_to_csv"
    /\ \E config \in Configurations :
          /\ configuration' = config
          /\ csvfile' = write_squashed_metadata_to_csv(returned, repo_order, config)
    /\ UNCHANGED <<depsVars, dashVars, heapVars, repo_order>>

NextPy == PythonReaderRead \/ GetDependencies
SpecPy == InitPy /\ [][NextPy]_vars

NextSelect == PythonReaderRead
SpecSelect == InitSelect /\ [][NextSelect]_vars

NextComments == PythonReaderRead
SpecComments == InitComments /\ [][NextComments]_vars

NextClassify == PythonReaderRead
SpecClassify == InitClassify /\ [][NextClassify]_vars

NextJs == JavascriptReaderRead
SpecJs == InitJs /\ [][NextJs]_vars

NextDeps == GetDependencies \/ GetDependenciesAgain
SpecDeps == InitDeps /\ [][NextDeps]_vars

NextSquash == SquashDict
SpecSquash == InitSquash /\ [][NextSquash]_vars

NextDash == Standardize \/ SquashAndStandardize \/ FeedBack
SpecDash == InitDash /\ [][NextDash]_vars

NextCsv == Standardize \/ WriteCsv

NextFrame == Standardize \/ SquashAndStandardize \/ CallerWrites
SpecFrame == InitDash /\ [][NextFrame]_vars
SpecCsv == InitCsv /\ [][NextCsv]_vars

(***************************************************************************)
(* Properties of the Python reader.                                        *)
(***************************************************************************)
PyReadDone == op = "PythonDependencyReader.read" /\ py_result.kind = "result"
DepsDone == op = "get_dependencies" /\ dependencies_output.kind = "result"

PythonGroups == {"github", "pypi_all", "pypi"}

\* C1: in every sub-group the Python reader emits (github, pypi_all, pypi),
\* count is the number of entries of the serialized list and the list holds
\* no identifier twice.
C1_CountsMatchLists ==
    PyReadDone =>
        \A g \in PythonGroups :
            /\ py_result.val[g].count = JsonEntries(py_result.val[g].list)
            /\ NoDuplicates(py_result.val[g].list[2])

\* C2: the production set is a subset of the all-files pinned set, so
\* pypi.count <= pypi_all.count, in the result of the reader and of
\* get_dependencies.
C2_ProductionSubsetOfAll ==
    /\ PyReadDone =>
          /\ Range(py_reader.self.production_packages) \subseteq Range(py_reader.self.pypi_dependencies)
          /\ Range(py_result.val.pypi.list[2]) \subseteq Range(py_result.val.pypi_all.list[2])
          /\ py_result.val.pypi.count <= py_result.val.pypi_all.count
    /\ (DepsDone /\ is_python_repo(repo)) =>
          /\ Range(dependencies_output.val["pypi"].list[2])
                \subseteq Range(dependencies_output.val["pypi_all"].list[2])
          /\ dependencies_output.val["pypi"].count <= dependencies_output.val["pypi_all"].count

\* a read where the production file holds one pinned line, another file a
\* second one, and a git+ line is present
C2_Witness ==
    /\ PyReadDone
    /\ py_result.val.pypi.count = 1
    /\ py_result.val.pypi_all.count = 2
    /\ py_result.val.github.count = 1

(***************************************************************************)
(* Properties of get_dependencies.                                         *)
(***************************************************************************)
SchemaKeys == {"count", "github", "pypi_all", "pypi", "js", "js.dev", "js.all"}
JsGroups == {"js", "js.dev", "js.all"}

\* C3: get_dependencies returns a mapping with every key of the default
\* schema; the sub-groups of an ecosystem whose reader is not applicable
\* keep count 0; with neither requirements/ nor package.json the result is
\* the all-zero default schema.
C3_DefaultSchemaKept ==
    DepsDone =>
        /\ SchemaKeys \subseteq DOMAIN dependencies_output.val
        /\ ~is_python_repo(repo) => \A g \in PythonGroups : dependencies_output.val[g].count = 0
        /\ ~is_js_repo(repo) => \A g \in JsGroups : dependencies_output.val[g].count = 0
        /\ (~is_python_repo(repo) /\ ~is_js_repo(repo)) => dependencies_output.val = DefaultOutput

\* a Python-only repository with dependencies: the js sub-groups stay at 0
C3_Witness ==
    /\ DepsDone
    /\ is_python_repo(repo) /\ ~is_js_repo(repo)
    /\ dependencies_output.val["count"] > 0
    /\ dependencies_output.val["js"] = [count |-> 0, list |-> <<>>]

\* the count of a reader's result, 0 for an empty result
ReaderCount(reader) ==
    LET result == ReaderRead(reader, repo)
    IN  IF result.kind = "result" THEN result.val["count"] ELSE 0

\* C4: the top-level count is the sum of the counts of the readers with a
\* non-empty result, i.e. pypi_all.count + github.count + js.count +
\* js.dev.count of the returned mapping.
C4_TotalIsSumOfReaders ==
    DepsDone =>
        /\ dependencies_output.val["count"]
              = ReaderCount("JavascriptDependencyReader") + ReaderCount("PythonDependencyReader")
        /\ dependencies_output.val["count"]
              = dependencies_output.val["pypi_all"].count + dependencies_output.val["github"].count
                  + dependencies_output.val["js"].count + dependencies_output.val["js.dev"].count

\* both readers contribute to the total
C4_Witness ==
    /\ DepsDone
    /\ ReaderCount("JavascriptDependencyReader") = 3
    /\ ReaderCount("PythonDependencyReader") = 2
    /\ dependencies_output.val["count"] = 5

(***************************************************************************)
(* Properties of the JavaScript reader.                                    *)
(***************************************************************************)
JsReadDone == op = "JavascriptDependencyReader.read" /\ js_result.kind = "result"

\* names under "dependencies" of package.json / of package-lock.json, as
\* written in the files
FileNames(file, key) ==
    IF file.exists /\ file.text.kind = "json" /\ key \in DOMAIN file.text.data
    THEN DOMAIN file.text.data[key] ELSE {}

\* C5 as stated, on a lockfile that parses: with a package-lock.json
\* present, js.all.count >= js.count.
C5_AllAtLeastJs ==
    (JsReadDone /\ repo.package_lock.exists /\ repo.package_lock.text.kind = "json") =>
        js_result.val["js.all"].count >= js_result.val["js"].count

\* C5 amended: with a package-lock.json present, js.all.count is the number
\* of package names under the lockfile's dependencies, and it is >= js.count
\* when every name under package.json's dependencies is among them.
C5_AllCountsLockedNames ==
    (JsReadDone /\ repo.package_lock.exists) =>
        /\ js_result.val["js.all"].count
              = Cardinality(FileNames(repo.package_lock, "dependencies"))
        /\ FileNames(repo.package_json, "dependencies")
                \subseteq FileNames(repo.package_lock, "dependencies")
              => js_result.val["js.all"].count >= js_result.val["js"].count

\* the lockfile holds the manifest's dependency and one more
C5_Witness ==
    /\ JsReadDone /\ repo.package_lock.exists
    /\ js_result.val["js"].count = 1
    /\ js_result.val["js.all"].count = 2

\* C6 as stated: the reader's count is the size of the union of the names
\* in dependencies and devDependencies.
C6_CountIsUnion ==
    JsReadDone =>
        js_result.val["count"]
            = Cardinality(FileNames(repo.package_json, "dependencies")
                            \cup FileNames(repo.package_json, "devDependencies"))

\* C6 amended: the reader's count is js.count + js.dev.count, the number of
\* names in dependencies plus the number in devDependencies, so a package
\* listed in both is counted twice.
C6_CountIsSum ==
    JsReadDone =>
        /\ js_result.val["count"]
              = Cardinality(FileNames(repo.package_json, "dependencies"))
                  + Cardinality(FileNames(repo.package_json, "devDependencies"))
        /\ js_result.val["count"] = js_result.val["js"].count + js_result.val["js.dev"].count

\* one package listed in both objects
C6_Witness ==
    /\ JsReadDone
    /\ FileNames(repo.package_json, "dependencies") = {"jest"}
    /\ FileNames(repo.package_json, "devDependencies") = {"jest"}
    /\ js_result.val["count"] = 2

\* package.json or package-lock.json is there and is not valid JSON, or a
\* locked entry has no version
MalformedJs(r) ==
    /\ r.package_json.exists
    /\ \/ r.package_json.text.kind # "json"
       \/ r.package_lock.exists /\ r.package_lock.text.kind # "json"
       \/ \E n \in FileNames(r.package_lock, "dependencies") :
              "version" \notin DOMAIN r.package_lock.text.data["dependencies"][n]

\* C7: when package.json or a present package-lock.json is not valid JSON,
\* or a locked entry is invalid, the read ends in an error and returns no
\* summary.
C7_MalformedRaises ==
    (op = "JavascriptDependencyReader.read" /\ MalformedJs(repo)) => js_result.kind = "raised"

(***************************************************************************)
(* Properties of the dashboard utils.                                      *)
(***************************************************************************)
\* the paths from the root of a mapping to its non-mapping leaves
RECURSIVE LeafPaths(_)
LeafPaths(d) ==
    UNION {IF IsDict(d[key]) THEN {<<key>> \o p : p \in LeafPaths(d[key].val)} ELSE {<<key>>} :
           key \in DOMAIN d}

\* the keys of a path joined with the delimiter
RECURSIVE Join(_, _)
Join(path, d) == IF Len(path) = 1 THEN path[1] ELSE path[1] \o d \o Join(Tail(path), d)

RECURSIVE ValueAt(_, _)
ValueAt(d, path) == IF Len(path) = 1 THEN d[path[1]] ELSE ValueAt(d[path[1]].val, Tail(path))

\* C8: the output of squash_dict is one-level; its keys are the paths to the
\* non-mapping leaves joined with the given delimiter at every level, each
\* with its leaf unchanged; sequences are leaves.
C8_JoinedAtEveryLevel ==
    op = "squash_dict" =>
        /\ DOMAIN squashed = {Join(path, delimiter) : path \in LeafPaths(nested)}
        /\ \A path \in LeafPaths(nested) :
              squashed[Join(path, delimiter)] = ValueAt(nested, path)
        /\ \A k \in DOMAIN squashed : ~IsDict(squashed[k])

StandardizeDone ==
    op \in {"standardize_metadata_by_repo", "squash_and_standardize_metadata_by_repo"}

\* C9: every entry of the standardized set has exactly the union of the key
\* sets of the entries standardized; a key the repository had keeps its
\* value, a key it lacked maps to None.  (metadata_by_repo is the mapping
\* standardize_metadata_by_repo was applied to.)
C9_SupersetKeys ==
    StandardizeDone =>
        /\ DOMAIN returned = DOMAIN metadata_by_repo
        /\ \A r \in DOMAIN metadata_by_repo :
              /\ DOMAIN returned[r]
                    = UNION {DOMAIN metadata_by_repo[q] : q \in DOMAIN metadata_by_repo}
              /\ \A k \in DOMAIN returned[r] :
                    returned[r][k] = IF k \in DOMAIN metadata_by_repo[r]
                                     THEN metadata_by_repo[r][k] ELSE None

\* two repositories, each with a key the other lacks
C9_Witness ==
    /\ op = "standardize_metadata_by_repo"
    /\ \E r, q \in DOMAIN passed : \E k, j \in DOMAIN returned[r] :
          /\ k \in DOMAIN passed[r] /\ k \notin DOMAIN passed[q]
          /\ j \in DOMAIN passed[q] /\ j \notin DOMAIN passed[r]
          /\ returned[r][k] = passed[r][k] /\ returned[r][k] # None
          /\ returned[r][j] = None

\* C10: applying squash_and_standardize_metadata_by_repo, or
\* standardize_metadata_by_repo, to a set that it returned itself returns
\* an equal set.
C10_Idempotent ==
    (StandardizeDone /\ fed_from = op) => returned = passed

\* a returned set with a joined key and a None, squashed and standardized again
C10_Witness ==
    /\ op = "squash_and_standardize_metadata_by_repo"
    /\ fed_from = op
    /\ \E r \in DOMAIN returned : \E k, j \in DOMAIN returned[r] :
          /\ Len(k) = 3 /\ returned[r][k] # None
          /\ returned[r][j] = None

(***************************************************************************)
(* The tabular report writer.                                              *)
(***************************************************************************)
CsvDone == op = "write_squashed_metadata_to_csv"

\* the columns that follow check_order
Remainder == SubSeq(csvfile.sorted_keys, Len(configuration.check_order) + 1,
                    Len(csvfile.sorted_keys))

\* the column sequence is check_order as given, then exactly the superset keys
\* outside check_order, each once, in ascending order
ColumnsAsResolved ==
    /\ Len(csvfile.sorted_keys) >= Len(configuration.check_order)
    /\ SubSeq(csvfile.sorted_keys, 1, Len(configuration.check_order)) = configuration.check_order
    /\ Range(Remainder) = get_superset_of_keys(returned) \ Range(configuration.check_order)
    /\ \A i \in 1..(Len(Remainder) - 1) : LexLess(Remainder[i], Remainder[i + 1])

\* C11 as stated: the column sequence is check_order followed by the remaining
\* superset keys in ascending order, and no column key occurs twice in it, for
\* every configuration
C11_NoColumnTwice ==
    CsvDone => (ColumnsAsResolved /\ NoDuplicates(csvfile.sorted_keys))

\* C11: the column sequence is check_order followed by the remaining superset
\* keys in ascending order; no key of the remainder occurs twice or occurs in
\* check_order, so a column key occurs twice exactly when check_order lists it
\* twice
C11_ColumnTwiceOnlyFromCheckOrder ==
    CsvDone => /\ ColumnsAsResolved
               /\ NoDuplicates(Remainder)
               /\ NoDuplicates(csvfile.sorted_keys) <=> NoDuplicates(configuration.check_order)

\* a key of check_order that the repositories report is left out of a
\* non-empty remainder
C11_Witness ==
    /\ CsvDone
    /\ Range(configuration.check_order) \cap get_superset_of_keys(returned) # {}
    /\ Remainder # <<>>

\* the row the writer is to produce for a repository
ExpectedRow(name) ==
    <<(<<name>>)>> \o [i \in 1..Len(csvfile.sorted_keys) |->
                         IF returned[name][csvfile.sorted_keys[i]] = None
                         THEN <<>>
                         ELSE <<"str", returned[name][csvfile.sorted_keys[i]]>>]

\* the header the writer is to produce
ExpectedHeader ==
    <<REPO_NAME>> \o [i \in 1..Len(csvfile.sorted_keys) |->
                        LET key == csvfile.sorted_keys[i]
                        IN  IF key \in DOMAIN configuration.key_aliases
                            THEN configuration.key_aliases[key] ELSE key]

\* C12: the table is one header row (repo_name, then alias or raw key per
\* column) followed by exactly one row per repository in insertion order, each
\* the repository name and its value per column, None as an empty field
C12_OneRowPerRepository ==
    CsvDone => /\ csvfile.kind = "returned"
               /\ Len(csvfile.rows) = 1 + Len(repo_order)
               /\ csvfile.rows[1] = ExpectedHeader
               /\ \A j \in 1..Len(repo_order) : csvfile.rows[j + 1] = ExpectedRow(repo_order[j])

(***************************************************************************)
(* Repeated calls of get_dependencies.                                     *)
(***************************************************************************)
DepsAgain == op = "get_dependencies_again"

\* the readers in the other order
ReversedSubclasses ==
    [i \in 1..Len(ReaderSubclasses) |-> ReaderSubclasses[Len(ReaderSubclasses) + 1 - i]]

TESTING == "testing"

\* C14: for a Python repository the mapping returned by get_dependencies has a
\* testing sub-group with a count field, next to pypi, github and js
C14_TestingGroup ==
    (DepsDone /\ is_python_repo(repo) /\ dependencies_output.kind = "result") =>
        /\ {"pypi", "github", "js"} \subseteq DOMAIN dependencies_output.val
        /\ TESTING \in DOMAIN dependencies_output.val
        /\ "count" \in DOMAIN dependencies_output.val[TESTING]

(***************************************************************************)
(* The choice of the production files.                                     *)
(***************************************************************************)
\* the file name of a path: what follows its last "/"
FileNameOf(path) ==
    LET slashes == {i \in 1..Len(path) : path[i] = "/"}
        last == IF slashes = {} THEN 0 ELSE CHOOSE i \in slashes : \A j \in slashes : j <= i
    IN  SubSeq(path, last + 1, Len(path))

\* the files named exactly name
FilesNamed(files, name) == {i \in 1..Len(files) : FileNameOf(files[i].path) = name}

\* the positions in priority_list of the names some file has
NamesPresent(files) == {k \in 1..Len(priority_list) : FilesNamed(files, priority_list[k]) # {}}

\* the pypi entries of the files named by the first name of priority_list
\* that some file has
ProductionByName(files) ==
    IF NamesPresent(files) = {} THEN {}
    ELSE LET first == CHOOSE k \in NamesPresent(files) : \A j \in NamesPresent(files) : k <= j
         IN  UNION {Range(cleanup_lines(files[i].lines).pypi) :
                        i \in FilesNamed(files, priority_list[first])}

\* C15: the production subset comes from exactly the files whose file name
\* equals the first of production.txt, base.txt, development.txt, dev.txt
\* that some file has; with no such file it is empty and the read succeeds
C15_ProductionByExactName ==
    (op = "PythonDependencyReader.read" /\ is_python_repo(repo)) =>
        /\ py_result.kind = "result"
        /\ Range(py_reader.self.production_packages) = ProductionByName(repo.requirements.files)
        /\ py_result.val["pypi"].count = Cardinality(ProductionByName(repo.requirements.files))

(***************************************************************************)
(* Comment lines and blank lines.                                          *)
(***************************************************************************)
\* the line without its leading spaces and tabs
RECURSIVE LeftStripped(_)
LeftStripped(line) ==
    IF line # <<>> /\ line[1] \in {" ", TAB} THEN LeftStripped(Tail(line)) ELSE line

\* blank, or the first character that is not whitespace is "#"
IsCommentOrBlank(line) == LeftStripped(line) = <<>> \/ StartsWith(LeftStripped(line), HASH)
CarriesEntry(line) == ~IsCommentOrBlank(line)

\* the files with their comment lines and blank lines taken out
WithoutComments(files) ==
    [i \in 1..Len(files) |->
        [path |-> files[i].path, lines |-> SelectSeq(files[i].lines, CarriesEntry)]]

\* C16: a line that is blank or whose first non-whitespace character is "#"
\* contributes to none of github, pypi_all and pypi: the sets are those of the
\* same files without these lines
C16_CommentsContributeNothing ==
    (op = "PythonDependencyReader.read" /\ is_python_repo(repo)) =>
        LET without == PythonReaderState(WithoutComments(repo.requirements.files))
        IN  /\ Range(py_reader.self.github_dependencies) = Range(without.github_dependencies)
            /\ Range(py_reader.self.pypi_dependencies) = Range(without.pypi_dependencies)
            /\ Range(py_reader.self.production_packages) = Range(without.production_packages)

(***************************************************************************)
(* The class of a cleaned line.                                            *)
(***************************************************************************)
\* the cleaned lines of the files at the given paths
CleanedLines(files, paths) ==
    UNION {Range(stripped_lines(get_file_lines(files, paths[i]))) : i \in 1..Len(paths)}

BeginsWithGit(line) == Len(line) >= 4 /\ SubSeq(line, 1, 4) = <<"g", "i", "t", "+">>
HasEqEq(line) == \E i \in 1..(Len(line) - 1) : line[i] = "=" /\ line[i + 1] = "="

\* C17: a cleaned line that begins with git+ is in github and in no pypi set,
\* also when it contains "=="; any other cleaned line is in the pypi sets
\* iff it contains "=="; a line with neither is in no set; github and
\* pypi_all are disjoint
C17_OneSetPerLine ==
    (op = "PythonDependencyReader.read" /\ is_python_repo(repo)) =>
        LET files == repo.requirements.files
            all == CleanedLines(files, SelectSeq(Paths(files), IsRequirementFile))
            production == CleanedLines(files, SelectProduction(Paths(files), priority_list))
            github == Range(py_reader.self.github_dependencies)
            pypi_all == Range(py_reader.self.pypi_dependencies)
            pypi == Range(py_reader.self.production_packages)
        IN  /\ py_result.kind = "result"
            /\ github = {line \in all : BeginsWithGit(line)}
            /\ pypi_all = {line \in all : ~BeginsWithGit(line) /\ HasEqEq(line)}
            /\ pypi = {line \in production : ~BeginsWithGit(line) /\ HasEqEq(line)}
            /\ github \cap pypi_all = {}

\* a git line with "==", once behind an editable marker, next to a pinned
\* line and a line that is neither
C17_Witness ==
    /\ op = "PythonDependencyReader.read" /\ is_python_repo(repo)
    /\ \E i \in 1..Len(repo.requirements.files) :
          {L_editable, L_pin, L_plain} \subseteq Range(repo.requirements.files[i].lines)
    /\ L_git \in Range(py_reader.self.github_dependencies)
    /\ L_pin \in Range(py_reader.self.pypi_dependencies)

(***************************************************************************)
(* What the calls leave of the caller's objects.                           *)
(***************************************************************************)
WriteDone == op = "caller_write"

\* C18: standardize_metadata_by_repo leaves the input mapping and each of its
\* entries as they were, and a value written into one repository's returned
\* mapping changes neither another repository's returned mapping nor the input
C18_InputAndOthersUntouched ==
    /\ [](op = "standardize_metadata_by_repo" =>
             /\ arg_ref = old_ref
             /\ metadata_by_repo = passed
             /\ \A id \in DOMAIN heap : \A name \in DOMAIN ret_ref :
                    ret_ref[name] = id => (\A other \in DOMAIN arg_ref : arg_ref[other] # id))
    /\ [][WriteDone' =>
             /\ metadata_by_repo' = metadata_by_repo
             /\ \A name \in DOMAIN returned :
                    name # written'.name => returned'[name] = returned[name]]_vars

\* the caller has overwritten a null fill-in of one of two repositories that
\* standardize_metadata_by_repo returned
C18_Witness ==
    /\ WriteDone
    /\ fed_from = "none" /\ passed = metadata_by_repo
    /\ Cardinality(DOMAIN returned) >= 2
    /\ written.key \notin DOMAIN metadata_by_repo[written.name]
    /\ returned[written.name][written.key] = WRITTEN
    /\ \E name \in DOMAIN returned : name # written.name /\ returned[name][written.key] # WRITTEN

\* C19: after squash_and_standardize_metadata_by_repo every entry of the
\* caller's mapping is squash_dict of its former value, under the same names;
\* the former nested objects are as they were, and the entries are not the
\* returned objects, so they hold none of the null fill-ins
C19_CallerMappingSquashed ==
    op = "squash_and_standardize_metadata_by_repo" =>
        /\ DOMAIN metadata_by_repo = DOMAIN passed
        /\ \A name \in DOMAIN passed :
               /\ metadata_by_repo[name] = squash_dict(passed[name], DOT)
               /\ arg_ref[name] # old_ref[name]
               /\ arg_ref[name] # ret_ref[name]
               /\ heap[old_ref[name]] = passed[name]

\* a nested result was squashed in the caller's mapping, and the returned
\* mapping of that repository has a null fill-in the caller's entry lacks
C19_Witness ==
    /\ op = "squash_and_standardize_metadata_by_repo"
    /\ \E name \in DOMAIN passed :
          /\ \E key \in DOMAIN passed[name] :
                IsDict(passed[name][key]) /\ passed[name][key].val # EMPTY_DICT
          /\ \E key \in DOMAIN returned[name] :
                returned[name][key] = None /\ key \notin DOMAIN metadata_by_repo[name]

=============================================================================
